---- MODULE Spec2Model ----
(***************************************************************************)
(* The local single-instance HTTP control server of mypointcards, in its   *)
(* three variants:                                                         *)
(*   "server_py"  src/macos/server.py (class ServerHandler)                *)
(*   "generated"  the script written by app_builder.create_server_script   *)
(*   "windows"    HTML_TEMPLATE of src/windows/make_windows_exe.py         *)
(* Several launches of one application run on one machine.  Each launch is *)
(* a process with a main thread, a serve loop that handles one request at  *)
(* a time (socketserver.TCPServer), and one deferred-shutdown thread per   *)
(* accepted /exit request.  The machine state shared by the launches is    *)
(* the loopback port and the PID marker file.                              *)
(***************************************************************************)
EXTENDS Integers, Sequences, FiniteSets, TLC

\* Number of launches of the application on the machine.
NumProcs == 2
\* Number of HTTP requests sent by clients.
MaxRequests == 2

Procs == 1..NumProcs
Reqs == 1..MaxRequests
Variants == {"server_py", "generated", "windows"}

\* The PID marker file does not exist.
NoFile == 0

\* The requests clients send.  Paths are token sequences: startswith('/exit')
\* is a test of the first token, 'auto_close=true' in path one of membership.
RequestLines ==
    { [method |-> "POST", path |-> <<"/exit">>],
      [method |-> "GET", path |-> <<"/exit", "?", "auto_close=true">>],
      [method |-> "GET", path |-> <<"/exit">>] }

NoResp == [status |-> 0, ctype |-> "", body |-> ""]
UnsentReq == [to |-> 0, method |-> "GET", path |-> <<"/exit">>,
              stage |-> "unsent", resp |-> NoResp, task |-> "none"]

VARIABLES
    variant,               \* which script the application runs
    pc,                    \* pc[p]: position of the main thread of launch p
    pidFile,               \* content of the PID file: NoFile or the writer's pid
    listeners,             \* launches holding a listening socket on localhost:PORT
    shutdown_in_progress,  \* shutdown_in_progress[p]: the flag of do_POST
    req,                   \* req[r]: a request, its handler's position, its response
    sigHandled,            \* sigHandled[p]: signal_handler has run for SIGINT/SIGTERM
    unlinkErr,             \* os.unlink has raised inside some call of cleanup()
    bindFailed,            \* bindFailed[p]: the TCPServer constructor of p raised
    opened,                \* opened[p]: p has called for a browser on localhost:PORT
    portHolder,            \* who listens on localhost:PORT when the guard is called
    probes,                \* the calls of the Instance Guard made so far
    html_content,          \* the source document handed to the server
    htmlCache,             \* lru_cache of get_modified_html: <<>> or <<document>>
    pages,                 \* the responses to GET / sent so far
    served,                \* the requests a serve loop has passed to its handler
    opens,                 \* the calls of open_browser() made so far
    urlOpens,              \* the attempts of open_browser() to open the URL
    winSession,            \* winSession[p]: main thread, server_ready and browser
                           \* thread of launch p of the Windows script
    portable,              \* the launches of the portable script: the PID file,
                           \* and per launch its main thread, server and threads
    cleaning,              \* the calls of cleanup() in one server.py process:
                           \* the PID file and the position of every caller
    built,                 \* the calls of ensure_exit_button on one document
    waiting,               \* one call of wait_for_server_ready()
    dmg                    \* one run of make_dmg: the image, the files, the steps

\* The state of the launches, their servers and their requests.
mainVars == <<variant, pc, pidFile, listeners, shutdown_in_progress, req,
              sigHandled, unlinkErr, bindFailed, opened>>

\* The state of the parts that are exercised on their own.
guardVars == <<portHolder, probes>>
pageVars == <<html_content, htmlCache, pages>>
callVars == <<served, opens>>
moreVars == <<urlOpens, winSession, portable, cleaning, built, waiting, dmg>>
auxVars == <<guardVars, pageVars, callVars, moreVars>>

vars == <<mainVars, auxVars>>

Alive(p) == pc[p] \notin {"new", "exited"}

\* The serve_forever loop of p is running: from the bind until the process
\* ends or, in server.py, until httpd.shutdown() has returned.
Serving(p) == p \in listeners /\ pc[p] # "stopped"

----------------------------------------------------------------------------
\* Pure parts of the handlers.

StartsWithExit(path) == Head(path) = "/exit"

HasAutoClose(path) == \E i \in 1..Len(path) : path[i] = "auto_close=true"

\* A do_GET that sends every path starting with /exit into the shutdown.
RouteGetAnyExit(path) ==
    IF path = <<"/open">> THEN "open"
    ELSE IF path = <<"/ping">> THEN "ping"
    ELSE IF StartsWithExit(path) THEN "exit_auto"
    ELSE "static"

\* do_GET of server.py and of the generated script.
RouteGet(path) ==
    IF path = <<"/open">> THEN "open"
    ELSE IF path = <<"/ping">> THEN "ping"
    ELSE IF StartsWithExit(path) /\ HasAutoClose(path) THEN "exit_auto"
    ELSE "static"

\* do_POST of server.py and of the generated script.
RoutePost(path) ==
    IF path = <<"/exit">> \/ StartsWithExit(path) THEN "exit_post" ELSE "405"

\* Handler.do_GET / Handler.do_POST of the Windows script.
RouteWindows(method, path) ==
    IF method = "POST" /\ path = <<"/exit">> THEN "exit_win" ELSE "404"

\* The generated do_GET answers /open and leaves open_browser() to a thread
\* of its own.
Route(v, method, path) ==
    IF v = "windows" THEN RouteWindows(method, path)
    ELSE IF method = "GET"
         THEN (IF v = "generated" /\ RouteGet(path) = "open" THEN "open_thread"
               ELSE RouteGet(path))
    ELSE RoutePost(path)

RouteOf(r) == Route(variant, req[r].method, req[r].path)

\* Handlers that start a deferred-shutdown thread on a ping as well.
SpawnsTaskOnPing(route) == route \in {"exit_post", "exit_auto", "exit_win", "ping"}

\* The routes whose handler starts a deferred-shutdown thread.
SpawnsTask(route) == route \in {"exit_post", "exit_auto", "exit_win"}

Accepted200 == [status |-> 200, ctype |-> "text/plain", body |-> "Shutting down server..."]
Already200 == [status |-> 200, ctype |-> "text/plain", body |-> "Shutdown already in progress..."]
TabClose200 == [status |-> 200, ctype |-> "text/plain", body |-> "Shutting down from tab close"]
Pong200 == [status |-> 200, ctype |-> "text/plain", body |-> "pong"]
Open200 == [status |-> 200, ctype |-> "text/plain", body |-> "Browser open request received"]
NotAllowed405 == [status |-> 405, ctype |-> "text/plain", body |-> "Method not allowed"]
WinExit200 == [status |-> 200, ctype |-> "", body |-> ""]
NotFound404 == [status |-> 404, ctype |-> "text/html", body |-> "File not found"]

\* The response written for a route.  "static" is super().do_GET(), the
\* static-file fallback, in a document root that holds no file of the
\* requested name.
ResponseFor(route) ==
    CASE route = "exit_post" -> Accepted200
      [] route = "exit_auto" -> TabClose200
      [] route = "ping" -> Pong200
      [] route = "open" -> Open200
      [] route = "open_thread" -> [Open200 EXCEPT !.body = "Opening browser..."]
      [] route = "405" -> NotAllowed405
      [] route = "exit_win" -> WinExit200
      [] OTHER -> NotFound404

\* cleanup(): unlink the PID file if it exists; ok: os.unlink did not raise.
CleanupFile(file, ok) == IF file # NoFile /\ ok THEN NoFile ELSE file

\* The outcomes of os.unlink that cleanup() can meet.
UnlinkOutcomes == IF pidFile = NoFile THEN {TRUE} ELSE BOOLEAN

\* Which variants keep a PID file and register signal handlers and atexit.
HasMarker(v) == v \in {"server_py", "generated"}

\* The handler of r has been called and has not returned.  In server.py the
\* handler of GET /open calls open_browser() itself: "opening" is inside
\* subprocess.run, "open_alt" inside os.system, "open_hung" inside an
\* os.system whose command never ends.
InHandler(r) ==
    req[r].stage \in {"set", "respond", "spawn", "opening", "open_alt", "open_hung"}

Handling(p) == {r \in Reqs : req[r].to = p /\ InHandler(r)}

\* A serve loop with a threading mix-in: every request gets its own thread.
CanAcceptThreaded(p) == TRUE

\* socketserver.TCPServer without a threading mix-in: the serve loop takes
\* the next request only when the previous handler has returned.
CanAccept(p) == Handling(p) = {}

\* socketserver.TCPServer(("localhost", PORT), ...) with allow_reuse_address:
\* on macOS the bind fails while another socket listens on the port; the
\* Windows script sets SO_REUSEADDR too, and on Windows that option lets a
\* second socket bind a port another socket of the same user listens on.
BindSucceeds(v, held) == IF v = "windows" THEN TRUE ELSE held = {}

\* The deferred-shutdown threads of p that have been started and not finished.
Sleeping(p) == {r \in Reqs : req[r].to = p /\ req[r].task = "sleeping"}

----------------------------------------------------------------------------
\* The parts exercised on their own are at rest.
GuardInit ==
    /\ portHolder = "none"
    /\ probes = <<>>

\* No GET / has been served.
NoPages ==
    /\ htmlCache = <<>>
    /\ pages = <<>>

\* No URL has been opened.
MoreInit ==
    /\ urlOpens = <<>>
    /\ winSession = [p \in Procs |-> [main |-> "new", server_ready |-> FALSE,
                                      sets |-> 0, browser |-> "none"]]
    /\ portable = [pid_file |-> NoFile,
                   proc |-> [p \in Procs |->
                               [main |-> "start", bound |-> FALSE,
                                shutdown_request |-> FALSE, is_shut_down |-> FALSE,
                                task |-> [r \in Reqs |-> "none"]]]]
    /\ cleaning = [exists |-> TRUE, denied |-> FALSE,
                   caller |-> [c \in {"deferred", "signal", "atexit"} |->
                                 [at |-> "idle", calls |-> 0, saw |-> "nothing",
                                  raised |-> FALSE]]]
    /\ built = <<>>
    /\ waiting = [script |-> "none", probes |-> 0, refused |-> 0, errors |-> 0,
                  result |-> "none"]
    /\ dmg = [at |-> "idle", background |-> FALSE, window_size |-> <<>>,
              position |-> <<>>, attached |-> FALSE, temp_dir |-> FALSE,
              temp_dmg |-> FALSE, exit |-> "none"]

AuxInit ==
    /\ GuardInit
    /\ html_content = <<>>
    /\ NoPages
    /\ served = <<>>
    /\ opens = <<>>
    /\ MoreInit

\* The launches have not started.
MainInit ==
    /\ variant \in Variants
    /\ pc = [p \in Procs |-> "new"]
    /\ pidFile = NoFile
    /\ listeners = {}
    /\ shutdown_in_progress = [p \in Procs |-> FALSE]
    /\ req = [r \in Reqs |-> UnsentReq]
    /\ sigHandled = [p \in Procs |-> FALSE]
    /\ unlinkErr = FALSE
    /\ bindFailed = [p \in Procs |-> FALSE]
    /\ opened = [p \in Procs |-> FALSE]

Init == AuxInit /\ MainInit

\* The process of p ends: its sockets are closed, its memory is gone.
Die(p) ==
    /\ pc' = [pc EXCEPT ![p] = "exited"]
    /\ listeners' = listeners \ {p}
    /\ shutdown_in_progress' = [shutdown_in_progress EXCEPT ![p] = FALSE]

\* cleanup() run by a process, for the variants that keep a PID file.
RunCleanup ==
    \E ok \in UnlinkOutcomes :
        /\ pidFile' = IF HasMarker(variant) THEN CleanupFile(pidFile, ok) ELSE pidFile
        /\ unlinkErr' = (unlinkErr \/ (HasMarker(variant) /\ ~ok))

\* is_port_in_use(): connect_ex to localhost:PORT is 0 iff a socket listens.
PortInUse == listeners # {}

\* A launch that believes a PID file it finds and leaves it alone.
WritePidIfAbsent(v, file, p) == IF HasMarker(v) /\ file = NoFile THEN p ELSE file

\* "Save PID to file": open(self.pid_file, 'w') truncates whatever is there
\* and writes os.getpid(); the file is never read.
WritePid(v, file, p) == IF HasMarker(v) THEN p ELSE file

\* A launch that finds the port clear.  ServerHandler.__init__ (flag False,
\* signal handlers and atexit hook registered), the Instance Guard probe,
\* then "Save PID to file" (the Windows script keeps no PID file).
Launch(p) ==
    /\ pc[p] = "new"
    /\ IF p = 1 THEN TRUE ELSE pc[p - 1] # "new"
    /\ ~PortInUse
    /\ pc' = [pc EXCEPT ![p] = "bind"]
    /\ pidFile' = WritePid(variant, pidFile, p)
    /\ UNCHANGED <<variant, listeners, shutdown_in_progress, req, sigHandled, unlinkErr>>
    /\ UNCHANGED <<bindFailed, opened>>
    /\ UNCHANGED auxVars

\* A launch that finds the port in use.  server.py and the generated script
\* open the browser on the existing server and leave: sys.exit(0), or return
\* from main(); the interpreter's exit sequence then runs the atexit hook,
\* cleanup().  The Windows script first asks is_port_responsive().
LaunchExisting(p) ==
    /\ pc[p] = "new"
    /\ IF p = 1 THEN TRUE ELSE pc[p - 1] # "new"
    /\ PortInUse
    /\ IF variant = "windows"
       THEN /\ pc' = [pc EXCEPT ![p] = "responsive_check"]
            /\ UNCHANGED <<pidFile, unlinkErr, listeners, shutdown_in_progress>>
       ELSE /\ RunCleanup
            /\ Die(p)
    /\ UNCHANGED <<variant, req, sigHandled>>
    /\ opened' = [opened EXCEPT ![p] = (variant # "windows")]
    /\ UNCHANGED bindFailed
    /\ UNCHANGED auxVars

\* is_port_responsive(PORT) of the Windows script: connect, send a request and
\* wait up to 2 s for a first byte; a busy or vanished listener gives False.
\* Responsive: open the browser and os._exit(0).  Otherwise "Will try to
\* start our own server".
ProbeResponsive(p) ==
    /\ variant = "windows"
    /\ pc[p] = "responsive_check"
    /\ \E responsive \in (IF PortInUse THEN BOOLEAN ELSE {FALSE}) :
          IF responsive
          THEN /\ Die(p)
               /\ opened' = [opened EXCEPT ![p] = TRUE]
          ELSE /\ pc' = [pc EXCEPT ![p] = "bind"]
               /\ UNCHANGED <<listeners, shutdown_in_progress, opened>>
    /\ UNCHANGED <<variant, pidFile, req, sigHandled, unlinkErr, bindFailed>>
    /\ UNCHANGED auxVars

\* Create the TCPServer (bind and listen) and start serve_forever: in a daemon
\* thread in server.py, in the main thread in the two scripts.  When the bind
\* raises OSError, "except Exception" logs it, cleanup() runs and the script
\* ends (the exit sequence runs cleanup() once more).
Bind(p) ==
    /\ pc[p] = "bind"
    /\ IF BindSucceeds(variant, listeners)
       THEN /\ listeners' = listeners \cup {p}
            /\ pc' = [pc EXCEPT ![p] =
                        IF variant = "server_py" THEN "open_browser" ELSE "main_loop"]
            /\ opened' = [opened EXCEPT ![p] = (variant # "server_py")]
            /\ UNCHANGED <<pidFile, unlinkErr, shutdown_in_progress, bindFailed>>
       ELSE /\ RunCleanup
            /\ Die(p)
            /\ bindFailed' = [bindFailed EXCEPT ![p] = TRUE]
            /\ UNCHANGED opened
    /\ UNCHANGED <<variant, req, sigHandled>>
    /\ UNCHANGED auxVars

\* server.py after the serve thread has started: sleep, dock set-up, then
\* open_browser(): subprocess.run(['open', ...]) returns, or raises and the
\* os.system fallback is tried.
OpenBrowser(p) ==
    /\ variant = "server_py"
    /\ pc[p] = "open_browser"
    /\ \E primaryOk \in BOOLEAN :
          pc' = [pc EXCEPT ![p] = IF primaryOk THEN "main_loop" ELSE "open_fallback"]
    /\ UNCHANGED <<variant, pidFile, listeners, shutdown_in_progress, req,
                   sigHandled, unlinkErr>>
    /\ opened' = [opened EXCEPT ![p] = TRUE]
    /\ UNCHANGED bindFailed
    /\ UNCHANGED auxVars

\* The os.system fallback of open_browser() returns; the main thread enters
\* "while True: time.sleep(1)".
OpenFallback(p) ==
    /\ variant = "server_py"
    /\ pc[p] = "open_fallback"
    /\ pc' = [pc EXCEPT ![p] = "main_loop"]
    /\ UNCHANGED <<variant, pidFile, listeners, shutdown_in_progress, req,
                   sigHandled, unlinkErr>>
    /\ UNCHANGED <<bindFailed, opened>>
    /\ UNCHANGED auxVars

\* Where the SystemExit raised by sys.exit(0) in server.py's signal_handler
\* takes the main thread.  Inside the fallback of open_browser() the bare
\* "except:" catches it and the thread goes on; in the main loop the
\* "finally" clause runs httpd.shutdown(); elsewhere it leaves start_server
\* and the exit sequence begins.  Once httpd.shutdown() has been called the
\* serve loop stops after its current request whether or not the caller waits.
AfterSystemExit(at) ==
    CASE at = "open_fallback" -> "open_fallback"
      [] at = "main_loop" -> "shutting"
      [] at = "shutting" -> "shutting"
      [] at = "stopped" -> "stopped"
      [] OTHER -> "finalizing"

\* A signal_handler that exits without calling cleanup().
SignalNoCleanup(file, ok) == file

\* cleanup() as called by signal_handler.
SignalCleanup(file, ok) == CleanupFile(file, ok)

\* SIGINT or SIGTERM is delivered: signal_handler runs in the main thread.
\* server.py: cleanup(); sys.exit(0).  Generated script: cleanup(); os._exit(0).
Signal(p) ==
    /\ HasMarker(variant)
    /\ Alive(p)
    /\ \E ok \in UnlinkOutcomes :
          /\ pidFile' = SignalCleanup(pidFile, ok)
          /\ unlinkErr' = (unlinkErr \/ ~ok)
    /\ sigHandled' = [sigHandled EXCEPT ![p] = TRUE]
    /\ IF variant = "generated"
       THEN Die(p)
       ELSE /\ pc' = [pc EXCEPT ![p] = AfterSystemExit(pc[p])]
            /\ UNCHANGED <<listeners, shutdown_in_progress>>
    /\ UNCHANGED <<variant, req>>
    /\ UNCHANGED <<bindFailed, opened>>
    /\ UNCHANGED auxVars

\* httpd.shutdown() in the "finally" of server.py's main loop: returns once
\* the serve loop has left its current request and stopped.
HttpdShutdown(p) ==
    /\ pc[p] = "shutting"
    /\ Handling(p) = {}
    /\ pc' = [pc EXCEPT ![p] = "stopped"]
    /\ UNCHANGED <<variant, pidFile, listeners, shutdown_in_progress, req,
                   sigHandled, unlinkErr>>
    /\ UNCHANGED <<bindFailed, opened>>
    /\ UNCHANGED auxVars

\* The interpreter's exit sequence: wait for the non-daemon threads (the
\* deferred-shutdown threads), run the atexit hook (cleanup), end the process.
Finalize(p) ==
    /\ pc[p] \in {"finalizing", "stopped"}
    /\ Sleeping(p) = {}
    /\ RunCleanup
    /\ Die(p)
    /\ UNCHANGED <<variant, req, sigHandled>>
    /\ UNCHANGED <<bindFailed, opened>>
    /\ UNCHANGED auxVars

----------------------------------------------------------------------------
\* Requests and their handlers.

\* How far the handler of a route gets in its first step.  do_POST on /exit
\* first reads the flag: "if self.server_handler.shutdown_in_progress:"
\* answers 'Shutdown already in progress...' and returns.  do_GET on /open
\* writes its response and calls open_browser().  The other handlers that
\* start no thread write their response and return.
FirstStep(route, flag) ==
    IF route = "exit_post"
    THEN (IF flag THEN [stage |-> "done", resp |-> Already200]
                  ELSE [stage |-> "set", resp |-> NoResp])
    ELSE IF SpawnsTask(route) THEN [stage |-> "respond", resp |-> NoResp]
    ELSE IF route = "open" THEN [stage |-> "opening", resp |-> Open200]
    ELSE [stage |-> "done", resp |-> ResponseFor(route)]

\* A client connects to a listening launch and sends a request; the serve
\* loop takes it and calls do_GET / do_POST.
Accept(r, p, line) ==
    /\ req[r].stage = "unsent"
    /\ IF r = 1 THEN TRUE ELSE req[r - 1].stage # "unsent"
    /\ Alive(p)
    /\ Serving(p)
    /\ CanAccept(p)
    /\ LET first == FirstStep(Route(variant, line.method, line.path),
                              shutdown_in_progress[p])
       IN req' = [req EXCEPT ![r] = [to |-> p, method |-> line.method,
                                     path |-> line.path, stage |-> first.stage,
                                     resp |-> first.resp, task |-> "none"]]
    /\ UNCHANGED <<variant, pc, pidFile, listeners, shutdown_in_progress,
                   sigHandled, unlinkErr>>
    /\ UNCHANGED <<bindFailed, opened>>
    /\ UNCHANGED auxVars

\* do_POST on /exit with the flag read False:
\* "self.server_handler.shutdown_in_progress = True", then the response.
SetFlag(r) ==
    /\ req[r].stage = "set"
    /\ Alive(req[r].to)
    /\ shutdown_in_progress' = [shutdown_in_progress EXCEPT ![req[r].to] = TRUE]
    /\ req' = [req EXCEPT ![r].resp = ResponseFor(RouteOf(r)), ![r].stage = "spawn"]
    /\ UNCHANGED <<variant, pc, pidFile, listeners, sigHandled, unlinkErr>>
    /\ UNCHANGED <<bindFailed, opened>>
    /\ UNCHANGED auxVars

\* send_response / send_header / end_headers / wfile.write of do_GET on
\* /exit?auto_close=true and of the Windows do_POST on /exit.
Respond(r) ==
    /\ req[r].stage = "respond"
    /\ Alive(req[r].to)
    /\ req' = [req EXCEPT ![r].resp = ResponseFor(RouteOf(r)), ![r].stage = "spawn"]
    /\ UNCHANGED <<variant, pc, pidFile, listeners, shutdown_in_progress,
                   sigHandled, unlinkErr>>
    /\ UNCHANGED <<bindFailed, opened>>
    /\ UNCHANGED auxVars

\* threading.Thread(target=delayed_shutdown).start() (Windows: target=shutdown).
Spawn(r) ==
    /\ req[r].stage = "spawn"
    /\ Alive(req[r].to)
    /\ req' = [req EXCEPT ![r].task = "sleeping", ![r].stage = "done"]
    /\ UNCHANGED <<variant, pc, pidFile, listeners, shutdown_in_progress,
                   sigHandled, unlinkErr>>
    /\ UNCHANGED <<bindFailed, opened>>
    /\ UNCHANGED auxVars

\* What ends the deferred thread.  server.py calls signal_handler, whose
\* sys.exit(0) raises SystemExit in the calling thread: outside the main
\* thread that ends the thread only.  The two scripts call os._exit(0).
TaskEndsProcess(v) == v # "server_py"

\* delayed_shutdown after its sleep (shutdown of the Windows script has no
\* sleep and no cleanup): cleanup(), then the exit call.
DelayedShutdown(r) ==
    /\ req[r].task = "sleeping"
    /\ Alive(req[r].to)
    /\ req' = [req EXCEPT ![r].task = "ran"]
    /\ RunCleanup
    /\ IF TaskEndsProcess(variant)
       THEN Die(req[r].to)
       ELSE UNCHANGED <<pc, listeners, shutdown_in_progress>>
    /\ UNCHANGED <<variant, sigHandled>>
    /\ UNCHANGED <<bindFailed, opened>>
    /\ UNCHANGED auxVars

----------------------------------------------------------------------------
\* The steps of server.py.
NextServer ==
    \/ \E p \in Procs : Launch(p)
    \/ \E p \in Procs : LaunchExisting(p)
    \/ \E p \in Procs : Bind(p)
    \/ \E p \in Procs : OpenBrowser(p)
    \/ \E p \in Procs : OpenFallback(p)
    \/ \E p \in Procs : Signal(p)
    \/ \E p \in Procs : HttpdShutdown(p)
    \/ \E p \in Procs : Finalize(p)
    \/ \E r \in Reqs, p \in Procs, line \in RequestLines : Accept(r, p, line)
    \/ \E r \in Reqs : SetFlag(r)
    \/ \E r \in Reqs : Respond(r)
    \/ \E r \in Reqs : Spawn(r)
    \/ \E r \in Reqs : DelayedShutdown(r)

Next ==
    \/ NextServer
    \/ \E p \in Procs : ProbeResponsive(p)

\* The application in any of its three variants.
Spec == Init /\ [][Next]_vars

\* The application run from server.py.
InitServer == Init /\ variant = "server_py"

SpecServer == InitServer /\ [][NextServer]_vars

\* The threads of server.py take steps as long as the process lives; launches,
\* signals and requests come from outside and need not happen.
FairSpecServer ==
    /\ SpecServer
    /\ \A p \in Procs :
          /\ WF_vars(Bind(p))
          /\ WF_vars(OpenBrowser(p))
          /\ WF_vars(OpenFallback(p))
          /\ WF_vars(HttpdShutdown(p))
          /\ WF_vars(Finalize(p))
    /\ \A r \in Reqs :
          /\ WF_vars(SetFlag(r))
          /\ WF_vars(Respond(r))
          /\ WF_vars(Spawn(r))
          /\ WF_vars(DelayedShutdown(r))

----------------------------------------------------------------------------
\* The control endpoints under clients that also ping, ask for the browser,
\* post to other paths, and hang up before the response is written.

ControlLines ==
    { [method |-> "GET", path |-> <<"/ping">>],
      [method |-> "GET", path |-> <<"/open">>],
      [method |-> "POST", path |-> <<"/exit">>],
      [method |-> "POST", path |-> <<"/exit", "?", "reason=tab_closed">>],
      [method |-> "POST", path |-> <<"/exit", "now">>],
      [method |-> "POST", path |-> <<"/other">>] }

\* open_browser() called by do_GET on /open in server.py: subprocess.run ends
\* (the command exits, or is killed at the 2 s timeout and TimeoutExpired is
\* raised); on an exception os.system runs the same command with no timeout.
OpenInHandler(r) ==
    /\ req[r].stage = "opening"
    /\ Alive(req[r].to)
    /\ \E raised \in BOOLEAN :
          req' = [req EXCEPT ![r].stage = IF raised THEN "open_alt" ELSE "done"]
    /\ UNCHANGED <<variant, pc, pidFile, listeners, shutdown_in_progress,
                   sigHandled, unlinkErr, bindFailed, opened>>
    /\ UNCHANGED auxVars

\* os.system inside the handler returns, or its command never ends.
OpenAltInHandler(r) ==
    /\ req[r].stage = "open_alt"
    /\ Alive(req[r].to)
    /\ \E ends \in BOOLEAN :
          req' = [req EXCEPT ![r].stage = IF ends THEN "done" ELSE "open_hung"]
    /\ UNCHANGED <<variant, pc, pidFile, listeners, shutdown_in_progress,
                   sigHandled, unlinkErr, bindFailed, opened>>
    /\ UNCHANGED auxVars

\* do_POST on /exit with the flag read False, the client having hung up: the
\* flag is set, the write of the response raises BrokenPipeError, the except
\* clause logs, send_error raises too ("Could not send error response"), and
\* do_POST returns without having reached threading.Thread(...).start().
SetFlagClientGone(r) ==
    /\ req[r].stage = "set"
    /\ Alive(req[r].to)
    /\ shutdown_in_progress' = [shutdown_in_progress EXCEPT ![req[r].to] = TRUE]
    /\ req' = [req EXCEPT ![r].stage = "done"]
    /\ UNCHANGED <<variant, pc, pidFile, listeners, sigHandled, unlinkErr,
                   bindFailed, opened>>
    /\ UNCHANGED auxVars

NextControl ==
    \/ \E p \in Procs : Launch(p)
    \/ \E p \in Procs : LaunchExisting(p)
    \/ \E p \in Procs : ProbeResponsive(p)
    \/ \E p \in Procs : Bind(p)
    \/ \E p \in Procs : OpenBrowser(p)
    \/ \E p \in Procs : OpenFallback(p)
    \/ \E p \in Procs : Signal(p)
    \/ \E p \in Procs : HttpdShutdown(p)
    \/ \E p \in Procs : Finalize(p)
    \/ \E r \in Reqs, p \in Procs, line \in ControlLines : Accept(r, p, line)
    \/ \E r \in Reqs : SetFlag(r)
    \/ \E r \in Reqs : SetFlagClientGone(r)
    \/ \E r \in Reqs : Respond(r)
    \/ \E r \in Reqs : Spawn(r)
    \/ \E r \in Reqs : DelayedShutdown(r)
    \/ \E r \in Reqs : OpenInHandler(r)
    \/ \E r \in Reqs : OpenAltInHandler(r)

SpecControl == Init /\ [][NextControl]_vars

\* server.py under clients that ping and press the exit button.
PingLines ==
    { [method |-> "GET", path |-> <<"/ping">>],
      [method |-> "POST", path |-> <<"/exit">>] }

NextPing ==
    \/ \E p \in Procs : Launch(p)
    \/ \E p \in Procs : LaunchExisting(p)
    \/ \E p \in Procs : Bind(p)
    \/ \E p \in Procs : OpenBrowser(p)
    \/ \E p \in Procs : OpenFallback(p)
    \/ \E p \in Procs : Signal(p)
    \/ \E p \in Procs : HttpdShutdown(p)
    \/ \E p \in Procs : Finalize(p)
    \/ \E r \in Reqs, p \in Procs, line \in PingLines : Accept(r, p, line)
    \/ \E r \in Reqs : SetFlag(r)
    \/ \E r \in Reqs : Spawn(r)
    \/ \E r \in Reqs : DelayedShutdown(r)

SpecPing == InitServer /\ [][NextPing]_vars

----------------------------------------------------------------------------
\* Properties.

\* The requests that p has taken, by route.
Taken(p, routes) == {r \in Reqs : req[r].to = p /\ RouteOf(r) \in routes}

\* The deferred-shutdown threads that the handlers of p have started.
Tasks(p) == {r \in Reqs : req[r].to = p /\ req[r].task # "none"}

ShutdownRoutes == {"exit_post", "exit_auto", "exit_win"}

\* C1: in server.py, two /exit shutdown requests (POST /exit, GET
\* /exit?auto_close=true) handled by one server start exactly one
\* delayed_shutdown thread, and both are answered with 200.
C1_TwoExitsOneDeferredThread ==
    \A p \in Procs :
        LET handled == {r \in Taken(p, ShutdownRoutes) : req[r].stage = "done"}
        IN Cardinality(handled) = 2 =>
              /\ Cardinality({r \in handled : req[r].task # "none"}) = 1
              /\ \A r \in handled : req[r].resp.status = 200

\* C2: in server.py, the deferred thread of an answered /exit request ends
\* the process: once it has run, the process has terminated (it serves no
\* more) and its PID marker is gone (unless os.unlink raised).
C2_DeferredThreadEndsProcess ==
    \A r \in Reqs :
        (req[r].task = "ran" /\ ~unlinkErr) =>
            /\ pc[req[r].to] = "exited"
            /\ pidFile # req[r].to

\* The same as a liveness property, for FairSpecServer: an /exit request
\* answered with 200 leads to a terminated process.
C2_AnsweredExitLeadsToTermination ==
    \A r \in Reqs :
        (req[r].to # 0 /\ RouteOf(r) \in ShutdownRoutes /\ req[r].resp.status = 200)
            ~> (req[r].to # 0 /\ pc[req[r].to] = "exited"
                    /\ (pidFile # req[r].to \/ unlinkErr))

\* A shutdown has been requested for p: by a signal or by an /exit request.
ShutdownRequested(p) ==
    sigHandled[p] \/ shutdown_in_progress[p] \/ Taken(p, ShutdownRoutes) # {}

\* C3: while an instance is serving and no shutdown has been requested for
\* it, the PID file exists, whatever other launches do.
C3_ServingInstanceKeepsMarker ==
    \A p \in Procs :
        (Alive(p) /\ Serving(p) /\ ~ShutdownRequested(p)) => pidFile # NoFile

\* The handler of r read shutdown_in_progress as False.
ObservedFalse(r) ==
    req[r].stage \in {"set", "spawn"} \/ req[r].task # "none" \/ req[r].resp = Accepted200

C5_ShutdownOnlyMovesForward ==
    [][\A p \in Procs :
          /\ (shutdown_in_progress[p] /\ Alive(p)') => shutdown_in_progress'[p]
          /\ Tasks(p) # {} => Tasks(p)' = Tasks(p)
          /\ pc[p] = "exited" => Taken(p, ShutdownRoutes)' = Taken(p, ShutdownRoutes)]_vars

C7_HandledExitIsAnswered ==
    \A r \in Reqs :
        (req[r].to # 0 /\ RouteOf(r) \in ShutdownRoutes
            /\ pc[req[r].to] = "exited" /\ ~sigHandled[req[r].to])
            => req[r].resp.status = 200

C9_SignalEndsServer ==
    \A p \in Procs :
        (sigHandled[p] /\ ~unlinkErr) =>
            /\ pc[p] \in {"shutting", "stopped", "finalizing", "exited"}
            /\ pidFile # p

\* C10: at most one process holds a listening socket on localhost:PORT.
C10_AtMostOneListener == Cardinality(listeners) <= 1

\* C11: a launch whose bind failed because the port is held has fallen back to
\* opening a browser on the listener that is there, by the time it ends.
C11_BindFailureOpensBrowser ==
    \A p \in Procs : (bindFailed[p] /\ pc[p] = "exited") => opened[p]

\* C12: a launch whose startup probe found the port open never goes on to
\* bind: from the probe it only opens the browser and ends.
C12_OpenPortNeverBinds ==
    [][\A p \in Procs :
          /\ (pc[p] = "new" /\ PortInUse) =>
                pc'[p] \in {"new", "responsive_check", "exited"}
          /\ pc[p] = "responsive_check" =>
                pc'[p] \in {"responsive_check", "exited"}]_vars

\* The next launch in line: the launches before it have started.
NextToLaunch(p) == pc[p] = "new" /\ (IF p = 1 THEN TRUE ELSE pc[p - 1] # "new")

C23_ProbeThenBindThenBrowser ==
    [][\A p \in Procs :
          /\ (pc[p] = "new" /\ pc'[p] = "bind") => ~PortInUse
          /\ (pc[p] # "bind" /\ pc'[p] = "bind") => (pc[p] = "new" /\ ~PortInUse)
          /\ (pc[p] \notin {"new", "responsive_check"} /\ ~opened[p] /\ opened'[p])
                => p \in listeners']_vars

\* C22: a browser-open call that never ends does not hold the serve loop of
\* a living server: while the call hangs, the loop can take the next request
\* (a GET /ping, say) and answer it.
C22_HungOpenLeavesServerFree ==
    \A r \in Reqs :
        (req[r].stage = "open_hung" /\ Alive(req[r].to) /\ Serving(req[r].to))
            => CanAccept(req[r].to)

\* C25: a GET /ping taken by a serving server.py is answered at once with 200,
\* text/plain, 'pong', whether or not a shutdown has been requested, and its
\* handling changes nothing else: the shutdown flag, the PID file, the
\* deferred threads, the launches and the listeners stay as they were.
C25_PingChangesNothing ==
    [][\A r \in Reqs :
          (req[r].stage = "unsent" /\ req'[r].stage # "unsent"
              /\ req'[r].method = "GET" /\ req'[r].path = <<"/ping">>)
            => /\ req'[r].stage = "done"
               /\ req'[r].resp = [status |-> 200, ctype |-> "text/plain", body |-> "pong"]
               /\ req'[r].task = "none"
               /\ shutdown_in_progress' = shutdown_in_progress
               /\ pidFile' = pidFile
               /\ \A p \in Procs : Tasks(p)' = Tasks(p) /\ Sleeping(p)' = Sleeping(p)
               /\ pc' = pc /\ listeners' = listeners
               /\ \A q \in Reqs \ {r} : req'[q] = req[q]]_vars

\* In the ShutdownRequested state (a POST /exit has set the flag and started
\* its thread, which still sleeps; the PID file is in place) the server has
\* answered a ping.
C25_Witness ==
    \E p \in Procs : \E r1, r2 \in Reqs :
        /\ req[r1].to = p /\ req[r1].method = "POST" /\ req[r1].task = "sleeping"
        /\ shutdown_in_progress[p] /\ pidFile = p
        /\ req[r2].to = p /\ req[r2].path = <<"/ping">> /\ req[r2].stage = "done"
        /\ req[r2].resp.body = "pong" /\ r1 < r2

\* C26: in server.py, whenever shutdown_in_progress is True a
\* delayed_shutdown thread has been started, or the handler that set the flag
\* is on its way to start one, or the process has ended.
C26_FlagMeansTerminationPending ==
    \A p \in Procs :
        (variant = "server_py" /\ shutdown_in_progress[p]) =>
            \/ pc[p] = "exited"
            \/ Tasks(p) # {}
            \/ \E r \in Handling(p) : req[r].stage = "spawn"

\* C29: in server.py and the generated script a POST whose path is not /exit,
\* alone or followed by a query string, is answered 405 'Method not allowed',
\* never sets shutdown_in_progress and starts no thread.
C29_OnlyPostExitShutsDown ==
    \A r \in Reqs :
        LET path == req[r].path
            isExit == path = <<"/exit">>
                        \/ (Len(path) >= 2 /\ path[1] = "/exit" /\ path[2] = "?")
        IN (variant # "windows" /\ req[r].to # 0 /\ req[r].method = "POST" /\ ~isExit)
              => /\ req[r].stage = "done"
                 /\ req[r].resp = NotAllowed405
                 /\ req[r].task = "none"

----------------------------------------------------------------------------
\* The Instance Guard on its own: is_port_in_use() of server.py, of the
\* generated script and of dock_handler.py, check_port_in_use() of the
\* portable script, is_port_in_use() of the Windows builder.

\* Number of calls of the guard.
MaxProbes == 2

Guards == {"server_py", "generated", "dock_handler", "portable", "windows_builder"}

\* Who may hold the port: nobody, this application, any other program.
Holders == {"none", "app", "foreign"}

\* What the socket calls of one probe do: connect_ex returns 0; returns
\* ECONNREFUSED; returns EAGAIN / ETIMEDOUT (no answer in time); socket()
\* raises OSError; resolving 'localhost' raises gaierror.
ProbeOutcomes == {"connected", "refused", "timeout", "create_error", "resolve_error"}

SocketErrors == {"refused", "timeout", "create_error", "resolve_error"}

\* The outcomes a probe can meet.  A connection is accepted only if somebody
\* listens, and refused only if nobody does; a listener whose backlog is full
\* leaves the probe without an answer.
OutcomesWhile(holder) ==
    IF holder = "none" THEN {"refused", "timeout", "create_error", "resolve_error"}
    ELSE {"connected", "timeout", "create_error", "resolve_error"}

\* A probe that counts a connection only if the listener is the application.
SocketProbeAppOnly(holder, outcome) ==
    CASE outcome = "connected" /\ holder = "app" -> "True"
      [] outcome \in {"connected", "refused", "timeout"} -> "False"
      [] OTHER -> "raises"

\* "with socket.socket(...) as s: return s.connect_ex(('localhost', PORT)) == 0":
\* connect_ex returns an error number for what connect() reports and raises
\* for the rest.  Whoever listens is not looked at.
SocketProbe(holder, outcome) ==
    CASE outcome = "connected" -> "True"
      [] outcome \in {"refused", "timeout"} -> "False"
      [] OTHER -> "raises"

\* The guards that wrap the probe in "try: ... except Exception: return False".
CatchesException(guard) == guard \in {"server_py", "generated", "dock_handler"}

is_port_in_use(guard, holder, outcome) ==
    LET r == SocketProbe(holder, outcome)
    IN IF r = "raises" /\ CatchesException(guard) THEN "False" ELSE r

\* Some program starts to listen on localhost:PORT.
ListenerStarts(kind) ==
    /\ portHolder = "none"
    /\ kind \in Holders \ {"none"}
    /\ portHolder' = kind
    /\ UNCHANGED <<probes, mainVars, pageVars, served, opens, moreVars>>

\* The listener releases the port.
ListenerReleases ==
    /\ portHolder # "none"
    /\ portHolder' = "none"
    /\ UNCHANGED <<probes, mainVars, pageVars, served, opens, moreVars>>

\* One call of a guard.
CallGuard(guard, outcome) ==
    /\ Len(probes) < MaxProbes
    /\ outcome \in OutcomesWhile(portHolder)
    /\ probes' = Append(probes, [guard |-> guard, holder |-> portHolder,
                                  outcome |-> outcome,
                                  result |-> is_port_in_use(guard, portHolder, outcome)])
    /\ UNCHANGED <<portHolder, mainVars, pageVars, served, opens, moreVars>>

NextGuard ==
    \/ \E kind \in Holders : ListenerStarts(kind)
    \/ ListenerReleases
    \/ \E guard \in Guards, outcome \in ProbeOutcomes : CallGuard(guard, outcome)

SpecGuard == InitServer /\ [][NextGuard]_vars

C14_SocketErrorMeansNotRunning ==
    \A i \in 1..Len(probes) :
        probes[i].outcome \in SocketErrors => probes[i].result = "False"

----------------------------------------------------------------------------
\* The served document: get_html_content / ensure_exit_button of
\* html_handler.py at build time, get_modified_html of server.py (and the
\* same lines of the generated do_GET) at serve time.  A document is a
\* sequence of the pieces the code looks for or inserts.

\* Longest source document, in pieces.
MaxDocLen == 3
\* Number of GET / requests.
MaxGets == 2

\* The pieces of a document as its author writes it.
AuthorPieces == {"Hi", "<head>", "</head>", "</body>"}

\* What contains the text "exit-app-button": the button element, the style
\* rules (#exit-app-button:hover) and the script (getElementById).
HasButtonText(doc) ==
    \E i \in 1..Len(doc) : doc[i] \in {"exit_button", "exit_styles", "exit_script"}

\* What contains the text "exit-confirmation": the dialog element, the style
\* rules and the script.
HasConfirmationText(doc) ==
    \E i \in 1..Len(doc) : doc[i] \in {"exit_confirmation", "exit_styles", "exit_script"}

Contains(doc, piece) == \E i \in 1..Len(doc) : doc[i] = piece

\* str.replace(piece, with + piece): every occurrence is replaced.
RECURSIVE InsertBefore(_, _, _)
InsertBefore(doc, piece, with) ==
    IF doc = <<>> THEN <<>>
    ELSE IF Head(doc) = piece
         THEN with \o <<piece>> \o InsertBefore(Tail(doc), piece, with)
         ELSE <<Head(doc)>> \o InsertBefore(Tail(doc), piece, with)

\* str.replace(piece, with): every occurrence is replaced, the piece is gone.
RECURSIVE ReplaceBy(_, _, _)
ReplaceBy(doc, piece, with) ==
    IF doc = <<>> THEN <<>>
    ELSE IF Head(doc) = piece
         THEN with \o ReplaceBy(Tail(doc), piece, with)
         ELSE <<Head(doc)>> \o ReplaceBy(Tail(doc), piece, with)

\* EXIT_BUTTON_SCRIPT: <style>, the button, the confirmation dialog, <script>.
EXIT_BUTTON_SCRIPT == <<"exit_styles", "exit_button", "exit_confirmation", "exit_script">>

\* default_html of get_html_content: styles in the head, the button and the
\* script in the body.
default_html ==
    <<"<head>", "exit_styles", "</head>", "Hi", "exit_button", "exit_script", "</body>">>

ensure_exit_button(html) ==
    LET withStyles ==
            IF Contains(html, "<head>") /\ Contains(html, "</head>")
                  /\ ~HasConfirmationText(html)
            THEN InsertBefore(html, "</head>", <<"exit_styles">>) ELSE html
        withDialog ==
            IF Contains(withStyles, "</body>") /\ ~HasConfirmationText(withStyles)
            THEN InsertBefore(withStyles, "</body>", <<"exit_confirmation">>)
            ELSE withStyles
        withButton ==
            IF ~HasButtonText(withDialog) /\ Contains(withDialog, "</body>")
            THEN InsertBefore(withDialog, "</body>", <<"exit_button">>)
            ELSE withDialog
    IN IF Contains(withButton, "</body>")
       THEN InsertBefore(withButton, "</body>", <<"exit_script">>)
       ELSE withButton

\* get_html_content(html_path): the default document when no file is given,
\* else the file's content passed through ensure_exit_button.
get_html_content(file) ==
    IF file = <<>> THEN default_html ELSE ensure_exit_button(file)

\* An injection that puts the markup in place of the closing tag.
GetModifiedHtmlDroppingTag(html) ==
    IF Contains(html, "</body>")
    THEN ReplaceBy(html, "</body>", EXIT_BUTTON_SCRIPT)
    ELSE html \o EXIT_BUTTON_SCRIPT

\* get_modified_html: "Always inject exit button before </body>".
get_modified_html(html) ==
    IF Contains(html, "</body>")
    THEN InsertBefore(html, "</body>", EXIT_BUTTON_SCRIPT)
    ELSE html \o EXIT_BUTTON_SCRIPT

RECURSIVE SeqsUpTo(_, _)
SeqsUpTo(S, n) ==
    IF n = 0 THEN {<<>>}
    ELSE LET shorter == SeqsUpTo(S, n - 1)
         IN shorter \cup {Append(d, x) : d \in shorter, x \in S}

\* The documents an author writes: no exit markup in them.
PlainDocs == SeqsUpTo(AuthorPieces, MaxDocLen) \ {<<>>}

\* The documents a server is given: plain ones (ServerHandler(app_name,
\* html_content)), and what the builder passes on from get_html_content.
SourceDocs == PlainDocs \cup {get_html_content(d) : d \in PlainDocs \cup {<<>>}}

InitPage ==
    /\ MainInit /\ variant = "server_py"
    /\ GuardInit
    /\ html_content \in SourceDocs
    /\ NoPages
    /\ served = <<>>
    /\ opens = <<>>
    /\ MoreInit

\* do_GET on "/": 200, text/html, the document of get_modified_html(), which
\* lru_cache computes on the first call and hands back on the later ones.
GetRoot ==
    /\ Len(pages) < MaxGets
    /\ LET body == IF htmlCache = <<>> THEN get_modified_html(html_content)
                    ELSE htmlCache[1]
       IN /\ htmlCache' = <<body>>
          /\ pages' = Append(pages, [status |-> 200, ctype |-> "text/html",
                                      body |-> body])
    /\ UNCHANGED <<html_content, mainVars, guardVars, served, opens, moreVars>>

NextPage == GetRoot

SpecPage == InitPage /\ [][NextPage]_vars

\* How often a piece occurs in a document.
RECURSIVE Count(_, _)
Count(doc, piece) ==
    IF doc = <<>> THEN 0
    ELSE (IF Head(doc) = piece THEN 1 ELSE 0) + Count(Tail(doc), piece)

\* A document with the pieces of the exit markup taken out.
RECURSIVE WithoutExitMarkup(_)
WithoutExitMarkup(doc) ==
    IF doc = <<>> THEN <<>>
    ELSE IF Head(doc) \in {"exit_styles", "exit_button", "exit_confirmation", "exit_script"}
         THEN WithoutExitMarkup(Tail(doc))
         ELSE <<Head(doc)>> \o WithoutExitMarkup(Tail(doc))

\* C16: for every source document (here: with at most one closing body tag)
\* every GET / response holds exactly one element with id exit-app-button.
C16_ExactlyOneExitButton ==
    \A n \in 1..Len(pages) :
        Count(html_content, "</body>") <= 1 => Count(pages[n].body, "exit_button") = 1

\* C17: a source document that already holds the exit markers comes back from
\* GET / as it is, with no second copy of button, dialog or script.
C17_InjectionIdempotent ==
    \A n \in 1..Len(pages) :
        (HasButtonText(html_content) /\ HasConfirmationText(html_content))
            => pages[n].body = html_content

\* C18: for a source document without exit markers GET / answers 200,
\* text/html, and the body is the original document, whole and in order, with
\* exit markup inserted that includes the button.
C18_OriginalPlusExitButton ==
    \A n \in 1..Len(pages) :
        (~HasButtonText(html_content) /\ ~HasConfirmationText(html_content)) =>
            /\ pages[n].status = 200
            /\ pages[n].ctype = "text/html"
            /\ WithoutExitMarkup(pages[n].body) = html_content
            /\ Count(pages[n].body, "exit_button") >= 1

\* <html><body>Hi</body></html> has been served twice.
C18_Witness ==
    /\ html_content = <<"Hi", "</body>">>
    /\ Len(pages) = 2
    /\ pages[2].body = <<"Hi">> \o EXIT_BUTTON_SCRIPT \o <<"</body>">>

\* C30: for every source document without exit markup, the served document
\* is the source with the exit markup inserted once, immediately before the
\* closing body tag (the last "</body>"), or at the very end when there is
\* none, and nothing else changed; also when "</body>" occurs more than once.
C30_MarkupInsertedOnce ==
    \A n \in 1..Len(pages) :
        LET doc == html_content
            ends == {i \in 1..Len(doc) : doc[i] = "</body>"}
            closing == CHOOSE i \in ends : \A j \in ends : j <= i
            expected ==
                IF ends = {} THEN doc \o EXIT_BUTTON_SCRIPT
                ELSE SubSeq(doc, 1, closing - 1) \o EXIT_BUTTON_SCRIPT
                        \o SubSeq(doc, closing, Len(doc))
        IN doc \in PlainDocs => pages[n].body = expected

----------------------------------------------------------------------------
\* Exceptions in the request handlers: do_GET / do_POST of server.py and of
\* the generated script (try / except Exception around the whole body), and
\* of the portable script's CustomHTTPRequestHandler (no try).

\* Number of requests passed to a handler.
MaxServed == 2

Handlers == {"server_py", "generated", "portable"}

\* Where the body of a handler raises: nowhere; before anything has been
\* written; in a write to a connection the client has dropped; after the
\* response has been written.
Faults == {"none", "before_response", "while_writing", "after_response"}

\* The handlers whose body is inside "try: ... except Exception as e:".
CatchesInHandler(handler) == handler \in {"server_py", "generated"}

\* Who catches what the body raises: the handler's own except clause, or
\* socketserver's _handle_request_noblock (handle_error prints the traceback
\* and the connection is closed).
CaughtBy(handler, fault) ==
    IF fault = "none" THEN "nobody"
    ELSE IF CatchesInHandler(handler) THEN "handler" ELSE "serve_loop"

\* The status the client receives.  The except clause calls
\* send_error(500, str(e)); on a dropped connection that raises too and the
\* inner bare except only logs.  After a written response the client has its
\* 200 already.  0: no response.
StatusSent(handler, fault) ==
    CASE fault = "none" -> 200
      [] fault = "after_response" -> 200
      [] fault = "before_response" -> IF CatchesInHandler(handler) THEN 500 ELSE 0
      [] OTHER -> 0

\* The serve loop after the handler: an Exception never leaves
\* _handle_request_noblock, so serve_forever goes on to the next request.
ServeLoopAfter(handler, fault) == "serving"

\* The serve loop passes a request to do_GET / do_POST.
HandleRequest(handler, method, fault) ==
    /\ Len(served) < MaxServed
    /\ \A i \in 1..Len(served) :
          served[i].handler = handler /\ served[i].loop = "serving"
    /\ served' = Append(served, [handler |-> handler, method |-> method,
                                    fault |-> fault,
                                    status |-> StatusSent(handler, fault),
                                    caught |-> CaughtBy(handler, fault),
                                    loop |-> ServeLoopAfter(handler, fault)])
    /\ UNCHANGED <<mainVars, guardVars, pageVars, opens, moreVars>>

NextHandler ==
    \E handler \in Handlers, method \in {"GET", "POST"}, fault \in Faults :
        HandleRequest(handler, method, fault)

SpecHandler == InitServer /\ [][NextHandler]_vars

\* C19: an exception raised while a request is handled is caught inside the
\* handler and the serve loop goes on serving; where nothing had been written
\* yet, the client is answered with 500.
C19_ExceptionBecomes500 ==
    \A i \in 1..Len(served) :
        served[i].fault # "none" =>
            /\ served[i].caught = "handler"
            /\ served[i].loop = "serving"
            /\ served[i].fault = "before_response" => served[i].status = 500

----------------------------------------------------------------------------
\* The Browser Launcher: open_browser() of the Windows script, of
\* dock_handler.py and of the generated macOS script.

\* Number of calls of open_browser().
MaxOpens == 2

Launchers == {"windows", "dock_handler", "generated"}

\* Whether open_browser() goes on to the call that opens the URL.
\* ready: the readiness test of the launcher succeeded in time
\* (server_ready.wait(timeout=10); is_port_in_use(8000);
\* wait_for_server_ready()).  dockLoaded: 'dock_handler' in sys.modules.
\* Windows: "if server_ready.wait(...): open, else: print timeout".
\* dock_handler: "if not is_port_in_use(8000): return".  Generated script:
\* hands over to dock_handler.open_browser() when that module is loaded, and
\* otherwise logs "attempting to open browser anyway" and opens.
AttemptsOpen(launcher, dockLoaded, ready) ==
    CASE launcher = "windows" -> ready
      [] launcher = "dock_handler" -> ready
      [] launcher = "generated" -> IF dockLoaded THEN ready ELSE TRUE

\* One call of open_browser().
CallOpenBrowser(launcher, dockLoaded, ready) ==
    /\ Len(opens) < MaxOpens
    /\ launcher = "windows" => ~dockLoaded
    /\ opens' = Append(opens, [launcher |-> launcher, dockLoaded |-> dockLoaded,
                                ready |-> ready,
                                attempted |-> AttemptsOpen(launcher, dockLoaded, ready)])
    /\ UNCHANGED <<mainVars, guardVars, pageVars, served, moreVars>>

NextBrowser ==
    \E launcher \in Launchers, dockLoaded \in BOOLEAN, ready \in BOOLEAN :
        CallOpenBrowser(launcher, dockLoaded, ready)

SpecBrowser == InitServer /\ [][NextBrowser]_vars

\* C20: when readiness cannot be confirmed within the timeout, open_browser()
\* still attempts to open the URL.
C20_OpensWithoutReadiness ==
    \A i \in 1..Len(opens) : ~opens[i].ready => opens[i].attempted

----------------------------------------------------------------------------
\* Opening the URL: the mechanisms of open_browser() in server.py, in
\* dock_handler.py, in the generated script (dock_handler not loaded) and in
\* the portable script.

\* Number of attempts to open the URL.
MaxUrlOpens == 2

UrlOpeners == {"server_py", "dock_handler", "generated", "portable"}

\* How the primary mechanism, subprocess.run(['open', url], ...), ends: the
\* command exits 0; exits non-zero (no handler for the URL); does not end
\* within the timeout; cannot be started (FileNotFoundError).
PrimaryOutcomes == {"ok", "nonzero_exit", "timeout", "raises"}

\* subprocess.run is given timeout=2 in server.py and in dock_handler.py only.
HasTimeout(opener) == opener \in {"server_py", "dock_handler"}

\* subprocess.run is given check=True in the two scripts, check=False in
\* server.py, and dock_handler.py leaves the default (False).
ChecksExitStatus(opener) == opener \in {"generated", "portable"}

\* Whether the primary call leaves its try block by an exception.
PrimaryRaises(opener, outcome) ==
    CASE outcome = "raises" -> TRUE
      [] outcome = "timeout" -> HasTimeout(opener)
      [] outcome = "nonzero_exit" -> ChecksExitStatus(opener)
      [] OTHER -> FALSE

\* The except clause of the primary call holds a second mechanism: os.system
\* in server.py, webbrowser.open_new in the generated script, webbrowser.open
\* in the portable script; dock_handler.py only logs.
HasAlternate(opener) == opener \in {"server_py", "generated", "portable"}

\* How the second mechanism can end.  os.system returns the exit status and
\* does not raise; the webbrowser calls return a boolean or raise.
AlternateOutcomes(opener) ==
    IF opener = "server_py" THEN {"ok", "fails"} ELSE {"ok", "fails", "raises"}

\* One call of open_browser(), the server being up.  Every except clause on
\* the way logs and returns, so nothing reaches the caller.
open_browser(opener, primary, alternate) ==
    LET tried == PrimaryRaises(opener, primary) /\ HasAlternate(opener)
    IN [opener |-> opener, primary |-> primary,
        alternateTried |-> tried,
        alternate |-> IF tried THEN alternate ELSE "none",
        propagated |-> FALSE]

CallUrlOpen(opener, primary, alternate) ==
    /\ Len(urlOpens) < MaxUrlOpens
    /\ primary = "timeout" => HasTimeout(opener)
    /\ alternate \in AlternateOutcomes(opener)
    /\ (PrimaryRaises(opener, primary) /\ HasAlternate(opener)) \/ alternate = "ok"
    /\ urlOpens' = Append(urlOpens, open_browser(opener, primary, alternate))
    /\ UNCHANGED <<mainVars, guardVars, pageVars, callVars, winSession, portable,
                   cleaning, built, waiting, dmg>>

NextUrlOpen ==
    \E opener \in UrlOpeners, primary \in PrimaryOutcomes,
       alternate \in {"ok", "fails", "raises"} :
        CallUrlOpen(opener, primary, alternate)

SpecUrlOpen == InitServer /\ [][NextUrlOpen]_vars

\* C21: when the primary mechanism of open_browser() in server.py or in
\* dock_handler.py fails (raises, times out, or the command exits
\* unsuccessfully), one alternate mechanism is tried, and no exception
\* reaches the caller.
C21_FailureTriesAlternate ==
    \A i \in 1..Len(urlOpens) :
        (urlOpens[i].opener \in {"server_py", "dock_handler"}
            /\ urlOpens[i].primary # "ok")
          => urlOpens[i].alternateTried /\ ~urlOpens[i].propagated

----------------------------------------------------------------------------
\* Readiness in the Windows script: server_ready = threading.Event(), the
\* daemon thread running open_browser(), ReadyTCPServer.server_bind.
\* winSession[p].sets counts the calls of server_ready.set().

\* The main thread after the startup probe.  existing: the port answered and
\* is_port_responsive() held, so the main thread itself opens the browser on
\* the instance that is there and calls os._exit(0).  Otherwise
\* browser_thread.start(): the thread enters server_ready.wait(timeout=10).
WinStart(p, existing) ==
    /\ winSession[p].main = "new"
    /\ winSession' = [winSession EXCEPT ![p] =
          IF existing THEN [@ EXCEPT !.main = "exited"]
          ELSE [@ EXCEPT !.main = "thread_started", !.browser = "waiting"]]
    /\ UNCHANGED <<mainVars, guardVars, pageVars, callVars, urlOpens, portable,
                   cleaning, built, waiting, dmg>>

\* ReadyTCPServer(("localhost", PORT), Handler): server_bind binds the socket
\* and then calls server_ready.set(); when the bind raises, set() is not
\* reached, "Startup error" is logged and the script ends.
WinBind(p, bound) ==
    /\ winSession[p].main = "thread_started"
    /\ winSession' = [winSession EXCEPT ![p] =
          IF bound
          THEN [@ EXCEPT !.main = "serving", !.server_ready = TRUE, !.sets = @ + 1]
          ELSE [@ EXCEPT !.main = "exited"]]
    /\ UNCHANGED <<mainVars, guardVars, pageVars, callVars, urlOpens, portable,
                   cleaning, built, waiting, dmg>>

\* An open_browser() that goes on whatever the wait returned.
WaitIgnored(flag) == TRUE

\* "if server_ready.wait(timeout=10):" Event.wait returns the flag.
WaitReturns(flag) == flag

\* server_ready.wait returns: at once when the flag is set, else at the
\* timeout ("Timeout waiting for server to start").
BrowserWait(p) ==
    /\ winSession[p].main # "exited"
    /\ winSession[p].browser = "waiting"
    /\ winSession' = [winSession EXCEPT ![p].browser =
          IF WaitReturns(winSession[p].server_ready) THEN "sleeping" ELSE "timed_out"]
    /\ UNCHANGED <<mainVars, guardVars, pageVars, callVars, urlOpens, portable,
                   cleaning, built, waiting, dmg>>

\* After time.sleep(0.5): webbrowser.open("http://localhost:PORT").
BrowserOpen(p) ==
    /\ winSession[p].main # "exited"
    /\ winSession[p].browser = "sleeping"
    /\ winSession' = [winSession EXCEPT ![p].browser = "opened"]
    /\ UNCHANGED <<mainVars, guardVars, pageVars, callVars, urlOpens, portable,
                   cleaning, built, waiting, dmg>>

\* POST /exit: shutdown() calls os._exit(0); the daemon thread ends with the
\* process wherever it is.
WinExit(p) ==
    /\ winSession[p].main = "serving"
    /\ winSession' = [winSession EXCEPT ![p].main = "exited"]
    /\ UNCHANGED <<mainVars, guardVars, pageVars, callVars, urlOpens, portable,
                   cleaning, built, waiting, dmg>>

NextReady ==
    \/ \E p \in Procs, existing \in BOOLEAN : WinStart(p, existing)
    \/ \E p \in Procs, bound \in BOOLEAN : WinBind(p, bound)
    \/ \E p \in Procs : BrowserWait(p)
    \/ \E p \in Procs : BrowserOpen(p)
    \/ \E p \in Procs : WinExit(p)

\* The application run from the Windows script.
InitWindows == Init /\ variant = "windows"

SpecReady == InitWindows /\ [][NextReady]_vars

\* C24: server_ready is False until the server socket is bound, is set once,
\* at the bind, and is never cleared; the browser thread goes on to open the
\* browser only with the flag True.
C24_ReadyOnceAtBind ==
    \A p \in Procs :
        LET w == winSession[p]
        IN /\ w.sets <= 1
           /\ w.server_ready <=> w.sets = 1
           /\ w.main \in {"new", "thread_started"} => ~w.server_ready
           /\ w.main = "serving" => w.server_ready
           /\ w.browser \in {"sleeping", "opened"} => w.server_ready

\* One launch has bound, set the flag and opened the browser; another one
\* failed to bind and its browser thread timed out with the flag False.
C24_Witness ==
    \E p, q \in Procs :
        /\ winSession[p].browser = "opened" /\ winSession[p].server_ready
        /\ winSession[q].browser = "timed_out" /\ ~winSession[q].server_ready

----------------------------------------------------------------------------
\* Shutdown of the portable script (macos_app.create_app_script): main()
\* runs server.serve_forever() in the main thread; signal_handler calls
\* server.shutdown(), removes the PID file and calls sys.exit(0).
\* socketserver: shutdown() sets the shutdown request and waits for the event
\* that serve_forever sets when it leaves its loop.

\* main() of launch p after check_port_in_use(PORT).  The port is clear: the
\* TCPServer is created, the PID file written, and serve_forever() entered
\* (the event is cleared on entry).  The port is in use: open_browser() on
\* the instance that is there and sys.exit(0).
PortableLaunch(p) ==
    /\ portable.proc[p].main = "start"
    /\ IF p = 1 THEN TRUE ELSE portable.proc[p - 1].main # "start"
    /\ IF \E q \in Procs : portable.proc[q].bound
       THEN portable' = [portable EXCEPT !.proc[p].main = "leaving"]
       ELSE portable' = [portable EXCEPT !.proc[p].main = "serving",
                                         !.proc[p].bound = TRUE, !.pid_file = p]
    /\ UNCHANGED <<mainVars, guardVars, pageVars, callVars, urlOpens, winSession,
                   cleaning, built, waiting, dmg>>

\* The serve loop handles GET /exit or POST /exit: 200, and a thread is
\* started that sleeps 0.5 s and then calls signal_handler(None, None).
PortableExitRequest(p, r) ==
    /\ portable.proc[p].main = "serving"
    /\ portable.proc[p].task[r] = "none"
    /\ IF r = 1 THEN TRUE ELSE portable.proc[p].task[r - 1] # "none"
    /\ portable' = [portable EXCEPT !.proc[p].task[r] = "sleeping"]
    /\ UNCHANGED <<mainVars, guardVars, pageVars, callVars, urlOpens, winSession,
                   cleaning, built, waiting, dmg>>

\* signal_handler in the thread of request r reaches server.shutdown().
PortableTaskShutdown(p, r) ==
    /\ portable.proc[p].main # "exited"
    /\ portable.proc[p].task[r] = "sleeping"
    /\ portable' = [portable EXCEPT !.proc[p].task[r] = "in_shutdown",
                                    !.proc[p].shutdown_request = TRUE]
    /\ UNCHANGED <<mainVars, guardVars, pageVars, callVars, urlOpens, winSession,
                   cleaning, built, waiting, dmg>>

\* SIGINT or SIGTERM arrives while the main thread is inside serve_forever:
\* signal_handler runs in the main thread, on top of the serve loop;
\* server.shutdown() sets the request and waits for the event, while the loop
\* that would set it is the frame below the handler.
PortableSignal(p) ==
    /\ portable.proc[p].main = "serving"
    /\ portable' = [portable EXCEPT !.proc[p].main = "in_shutdown",
                                    !.proc[p].shutdown_request = TRUE]
    /\ UNCHANGED <<mainVars, guardVars, pageVars, callVars, urlOpens, winSession,
                   cleaning, built, waiting, dmg>>

\* serve_forever, running, finds the shutdown request at its next turn, leaves
\* the loop and sets the event; main() returns.  The listening socket stays
\* open until the process ends.
PortableLoopEnds(p) ==
    /\ portable.proc[p].main = "serving"
    /\ portable.proc[p].shutdown_request
    /\ portable' = [portable EXCEPT !.proc[p].main = "leaving",
                                    !.proc[p].shutdown_request = FALSE,
                                    !.proc[p].is_shut_down = TRUE]
    /\ UNCHANGED <<mainVars, guardVars, pageVars, callVars, urlOpens, winSession,
                   cleaning, built, waiting, dmg>>

\* server.shutdown() returns in the thread of request r: the PID file is
\* removed and sys.exit(0) ends the thread.
PortableTaskEnds(p, r) ==
    /\ portable.proc[p].main # "exited"
    /\ portable.proc[p].task[r] = "in_shutdown"
    /\ portable.proc[p].is_shut_down
    /\ portable' = [portable EXCEPT !.proc[p].task[r] = "ended", !.pid_file = NoFile]
    /\ UNCHANGED <<mainVars, guardVars, pageVars, callVars, urlOpens, winSession,
                   cleaning, built, waiting, dmg>>

\* The interpreter's exit sequence once the main thread has left the script:
\* wait for the threads, run the atexit hook (registered with the PID file:
\* unlink it if it exists), end the process.
PortableFinalize(p) ==
    /\ portable.proc[p].main = "leaving"
    /\ \A r \in Reqs : portable.proc[p].task[r] \in {"none", "ended"}
    /\ portable' = [portable EXCEPT
          !.proc[p].main = "exited", !.proc[p].bound = FALSE,
          !.pid_file = IF portable.proc[p].bound THEN NoFile ELSE @]
    /\ UNCHANGED <<mainVars, guardVars, pageVars, callVars, urlOpens, winSession,
                   cleaning, built, waiting, dmg>>

NextPortable ==
    \/ \E p \in Procs : PortableLaunch(p)
    \/ \E p \in Procs, r \in Reqs : PortableExitRequest(p, r)
    \/ \E p \in Procs, r \in Reqs : PortableTaskShutdown(p, r)
    \/ \E p \in Procs : PortableSignal(p)
    \/ \E p \in Procs : PortableLoopEnds(p)
    \/ \E p \in Procs, r \in Reqs : PortableTaskEnds(p, r)
    \/ \E p \in Procs : PortableFinalize(p)

SpecPortable == InitServer /\ [][NextPortable]_vars

\* C27: in the portable script a signal_handler that has been invoked, in the
\* main thread by a signal or in the thread of an /exit request, is never
\* stuck in server.shutdown(): either the event it waits for is set or the
\* serve loop is running and will set it; and a process that has ended has
\* left no PID file of its own.
C27_SignalHandlerCompletes ==
    \A p \in Procs :
        LET me == portable.proc[p]
        IN /\ me.main = "in_shutdown" => me.is_shut_down
           /\ \A r \in Reqs :
                 me.task[r] = "in_shutdown" => (me.is_shut_down \/ me.main = "serving")
           /\ me.main = "exited" => portable.pid_file # p

----------------------------------------------------------------------------
\* ServerHandler.cleanup() of server.py, called in one process by the
\* deferred-shutdown threads, by signal_handler and by the atexit hook, the
\* PID file having been written:
\*     if os.path.exists(self.pid_file):
\*         try: os.unlink(self.pid_file)
\*         except Exception as e: logger.error(...)

\* Number of calls of cleanup() by each caller.
MaxCleanups == 2

CleanupCallers == {"deferred", "signal", "atexit"}

\* A cleanup() that expects the file to be there when it unlinks it.
CatchesPermissionOnly(exc) == exc = "PermissionError"

\* "except Exception" catches whatever os.unlink raises (an OSError).
CleanupCatches(exc) == exc \in {"PermissionError", "FileNotFoundError"}

\* "if os.path.exists(self.pid_file):" no file: cleanup() returns.
CleanupCheck(c) ==
    /\ cleaning.caller[c].at = "idle"
    /\ cleaning.caller[c].calls < MaxCleanups
    /\ cleaning' = [cleaning EXCEPT !.caller[c] =
          IF cleaning.exists THEN [@ EXCEPT !.at = "unlink"]
          ELSE [@ EXCEPT !.calls = @ + 1, !.saw = "absent"]]
    /\ UNCHANGED <<mainVars, guardVars, pageVars, callVars, urlOpens, winSession,
                   portable, built, waiting, dmg>>

\* os.unlink(self.pid_file): removes the file; or is refused
\* (PermissionError); or finds that another caller has removed the file since
\* the test (FileNotFoundError).  Then cleanup() returns, or lets through what
\* it does not catch.
CleanupUnlink(c, outcome) ==
    /\ cleaning.caller[c].at = "unlink"
    /\ outcome \in (IF cleaning.exists THEN {"removed", "PermissionError"}
                    ELSE {"FileNotFoundError"})
    /\ cleaning' = [cleaning EXCEPT
          !.exists = @ /\ outcome # "removed",
          !.denied = @ \/ outcome = "PermissionError",
          !.caller[c] = [at |-> "idle", calls |-> @.calls + 1, saw |-> outcome,
                         raised |-> @.raised
                                      \/ (outcome # "removed" /\ ~CleanupCatches(outcome))]]
    /\ UNCHANGED <<mainVars, guardVars, pageVars, callVars, urlOpens, winSession,
                   portable, built, waiting, dmg>>

NextCleanup ==
    \/ \E c \in CleanupCallers : CleanupCheck(c)
    \/ \E c \in CleanupCallers,
          outcome \in {"removed", "PermissionError", "FileNotFoundError"} :
          CleanupUnlink(c, outcome)

SpecCleanup == InitServer /\ [][NextCleanup]_vars

\* C28 as stated: however often and by whomever cleanup() is called, no call
\* reports an error to its caller and every completed call leaves the PID
\* file absent.
C28_CleanupLeavesNoFile ==
    \A c \in CleanupCallers :
        /\ ~cleaning.caller[c].raised
        /\ (cleaning.caller[c].at = "idle" /\ cleaning.caller[c].calls >= 1)
              => ~cleaning.exists

\* C28 amended: no call of cleanup() reports an error to its caller, and
\* every completed call leaves the PID file absent unless os.unlink has been
\* refused, in which case the error is only logged and the file may stay.
C28_CleanupNeverRaises ==
    \A c \in CleanupCallers :
        /\ ~cleaning.caller[c].raised
        /\ (cleaning.caller[c].at = "idle" /\ cleaning.caller[c].calls >= 1
               /\ ~cleaning.denied) => ~cleaning.exists

\* Two callers found the file in place; one removed it, the other's unlink
\* then met FileNotFoundError; a third call found nothing to do; nobody saw
\* an error.
C28_Witness ==
    \E c1, c2, c3 \in CleanupCallers :
        /\ cleaning.caller[c1].saw = "removed"
        /\ cleaning.caller[c2].saw = "FileNotFoundError"
        /\ cleaning.caller[c3].saw = "absent"
        /\ ~cleaning.exists
        /\ \A c \in CleanupCallers : ~cleaning.caller[c].raised

----------------------------------------------------------------------------
\* ensure_exit_button of html_handler.py on its own: get_html_content reads
\* the author's file and passes it through ensure_exit_button; the result is
\* a document that can be given to ensure_exit_button again.

\* Number of calls of ensure_exit_button on one document.
MaxEnsures == 2

\* get_html_content(html_path) with a file: built[1] is the file's content,
\* built[2] what ensure_exit_button made of it.
ReadHtmlFile(file) ==
    /\ built = <<>>
    /\ built' = <<file, get_html_content(file)>>
    /\ UNCHANGED <<mainVars, guardVars, pageVars, callVars, urlOpens, winSession,
                   portable, cleaning, waiting, dmg>>

\* ensure_exit_button(html_content) on a document that has been through it.
EnsureAgain ==
    /\ built # <<>>
    /\ Len(built) < MaxEnsures + 1
    /\ built' = Append(built, ensure_exit_button(built[Len(built)]))
    /\ UNCHANGED <<mainVars, guardVars, pageVars, callVars, urlOpens, winSession,
                   portable, cleaning, waiting, dmg>>

NextBuild ==
    \/ \E file \in PlainDocs : ReadHtmlFile(file)
    \/ EnsureAgain

SpecBuild == InitServer /\ [][NextBuild]_vars

\* C31: for every input document, what ensure_exit_button returns holds the
\* exit button element and the script that wires it to POST /exit, also when
\* the document has no closing body tag.
C31_AlwaysButtonAndScript ==
    \A n \in 2..Len(built) :
        /\ Count(built[n], "exit_button") >= 1
        /\ Count(built[n], "exit_script") >= 1

\* C32: ensure_exit_button is idempotent: applied to its own result it
\* returns that result unchanged.
C32_EnsureIdempotent ==
    \A n \in 3..Len(built) : built[n] = built[2]

\* C34: for a document with <head>, </head> and </body> and no exit markers,
\* ensure_exit_button puts the confirmation dialog before </body> and the
\* exit styles before </head>.
C34_DialogAndStylesInserted ==
    (Len(built) >= 2 /\ Contains(built[1], "<head>") /\ Contains(built[1], "</head>")
        /\ Contains(built[1], "</body>")) =>
        LET doc == built[2]
        IN /\ \E i \in 1..(Len(doc) - 1) :
                  doc[i] = "exit_styles" /\ doc[i + 1] = "</head>"
           /\ \E i, j \in 1..Len(doc) :
                  i < j /\ doc[i] = "exit_confirmation" /\ doc[j] = "</body>"
                  /\ \A k \in (i + 1)..(j - 1) :
                        doc[k] \in {"exit_button", "exit_script"}

----------------------------------------------------------------------------
\* wait_for_server_ready of server.py and of the generated script: a for
\* loop of connection probes, a tenth of a second apart.

\* "max_attempts = 10" in server.py, "max_attempts=20" in the generated script.
max_attempts(script) == IF script = "server_py" THEN 10 ELSE 20

\* A loop that makes one attempt more than max_attempts.
LoopRunsOnceMore(i, script) == i <= max_attempts(script)

\* "for i in range(max_attempts)": i attempts have been made, another follows.
LoopContinues(i, script) == i < max_attempts(script)

\* The caller (open_browser, start_server) calls wait_for_server_ready().
WaitCall(script) ==
    /\ waiting.script = "none"
    /\ waiting' = [waiting EXCEPT !.script = script]
    /\ UNCHANGED <<mainVars, guardVars, pageVars, callVars, urlOpens, winSession,
                   portable, cleaning, built, dmg>>

\* One pass of the loop body: connect_ex returns 0 ("return True"); or it
\* returns an error code; or socket.socket / connect_ex raises, which
\* "except: pass" swallows.  After a failed attempt, time.sleep(0.1).
WaitProbe(outcome) ==
    /\ waiting.script # "none" /\ waiting.result = "none"
    /\ LoopContinues(waiting.probes, waiting.script)
    /\ waiting' = [waiting EXCEPT
          !.probes = @ + 1,
          !.refused = IF outcome = "refused" THEN @ + 1 ELSE @,
          !.errors = IF outcome = "raises" THEN @ + 1 ELSE @,
          !.result = IF outcome = "connected" THEN "True" ELSE @]
    /\ UNCHANGED <<mainVars, guardVars, pageVars, callVars, urlOpens, winSession,
                   portable, cleaning, built, dmg>>

\* The loop is exhausted: logger.warning(...), "return False".
WaitGiveUp ==
    /\ waiting.script # "none" /\ waiting.result = "none"
    /\ ~LoopContinues(waiting.probes, waiting.script)
    /\ waiting' = [waiting EXCEPT !.result = "False"]
    /\ UNCHANGED <<mainVars, guardVars, pageVars, callVars, urlOpens, winSession,
                   portable, cleaning, built, dmg>>

NextWait ==
    \/ \E script \in {"server_py", "generated"} : WaitCall(script)
    \/ \E outcome \in {"connected", "refused", "raises"} : WaitProbe(outcome)
    \/ WaitGiveUp

SpecWait == InitServer /\ [][NextWait]_vars

\* C33: wait_for_server_ready makes at most max_attempts probes and raises
\* nothing; it returns True at the first probe that connects and probes no
\* more; it returns False exactly when all max_attempts probes have failed;
\* and until it has returned it always has a next step, so it terminates
\* within max_attempts passes of the loop.
C33_WaitTerminatesBounded ==
    waiting.script # "none" =>
        LET failures == waiting.refused + waiting.errors
        IN /\ waiting.probes <= max_attempts(waiting.script)
           /\ waiting.result \in {"none", "True", "False"}
           /\ waiting.result = "True" => waiting.probes = failures + 1
           /\ waiting.result # "True" => waiting.probes = failures
           /\ waiting.result = "False" => failures = max_attempts(waiting.script)
           /\ failures = max_attempts(waiting.script) => waiting.result # "True"
           /\ waiting.result = "none" => ENABLED (WaitProbe("refused") \/ WaitGiveUp)

\* The generated script's call returned True at its twentieth and last
\* probe, after failures of both kinds.
C33_Witness ==
    /\ waiting.script = "generated" /\ waiting.result = "True"
    /\ waiting.probes = 20 /\ waiting.errors >= 1 /\ waiting.refused >= 1

----------------------------------------------------------------------------
\* make_dmg of make_dmg.py: the temporary directory and image, the hdiutil
\* commands, and the try / except Exception / finally around them.

\* Values of --window-size and --position, split at the commas: the default,
\* a non-numeric part, a single number.
SizeArgs == {<<"640", "480">>, <<"640", "abc">>, <<"640">>}

\* "int(x) for x in value.split(',')" and the use of elements [0] and [1]:
\* ValueError for a part that is not a number, IndexError for a missing part.
ParsesAsPair(value) ==
    /\ \A i \in 1..Len(value) : value[i] \in {"640", "480"}
    /\ Len(value) >= 2

\* run_command(cmd): the position after the command.  check=True raises
\* CalledProcessError on a non-zero exit, and run_command answers it with
\* sys.exit(1): SystemExit passes "except Exception" and runs the finally.
run_command(ok, then) ==
    IF ok THEN [at |-> then, exit |-> "none"]
    ELSE [at |-> "finally", exit |-> "sys.exit(1)"]

\* make_dmg(args) up to "hdiutil create": temp_dir is made, the app copied
\* into it (an error of the copy goes to "except Exception": return 1).
DmgStart(background, window_size, position, copied) ==
    /\ dmg.at = "idle"
    /\ dmg' = [dmg EXCEPT !.background = background, !.window_size = window_size,
                          !.position = position, !.temp_dir = TRUE,
                          !.at = IF copied THEN "create" ELSE "finally",
                          !.exit = IF copied THEN "none" ELSE "return 1"]
    /\ UNCHANGED <<mainVars, guardVars, pageVars, callVars, urlOpens, winSession,
                   portable, cleaning, built, waiting>>

\* run_command(["hdiutil", "create", ..., temp_dmg]); the image is mounted
\* only "if args.background and os.path.exists(args.background)".
DmgCreate(ok) ==
    /\ dmg.at = "create"
    /\ LET after == run_command(ok, IF dmg.background THEN "attach" ELSE "convert")
       IN dmg' = [dmg EXCEPT !.at = after.at, !.exit = after.exit, !.temp_dmg = ok]
    /\ UNCHANGED <<mainVars, guardVars, pageVars, callVars, urlOpens, winSession,
                   portable, cleaning, built, waiting>>

\* device = run_command(["hdiutil", "attach", ..., temp_dmg]).
DmgAttach(ok) ==
    /\ dmg.at = "attach"
    /\ LET after == run_command(ok, "configure")
       IN dmg' = [dmg EXCEPT !.at = after.at, !.exit = after.exit, !.attached = ok]
    /\ UNCHANGED <<mainVars, guardVars, pageVars, callVars, urlOpens, winSession,
                   portable, cleaning, built, waiting>>

\* window_size and the settings are parsed, create_dmg_ds_store(settings)
\* runs: an exception goes to "except Exception": print, return 1.
DmgConfigure ==
    /\ dmg.at = "configure"
    /\ LET parsed == ParsesAsPair(dmg.window_size) /\ ParsesAsPair(dmg.position)
       IN dmg' = [dmg EXCEPT !.at = IF parsed THEN "detach" ELSE "finally",
                             !.exit = IF parsed THEN "none" ELSE "return 1"]
    /\ UNCHANGED <<mainVars, guardVars, pageVars, callVars, urlOpens, winSession,
                   portable, cleaning, built, waiting>>

\* run_command(["hdiutil", "detach", device]).
DmgDetach(ok) ==
    /\ dmg.at = "detach"
    /\ LET after == run_command(ok, "convert")
       IN dmg' = [dmg EXCEPT !.at = after.at, !.exit = after.exit,
                             !.attached = ~ok]
    /\ UNCHANGED <<mainVars, guardVars, pageVars, callVars, urlOpens, winSession,
                   portable, cleaning, built, waiting>>

\* run_command(["hdiutil", "convert", temp_dmg, ...]); "return 0".
DmgConvert(ok) ==
    /\ dmg.at = "convert"
    /\ LET after == run_command(ok, "finally")
       IN dmg' = [dmg EXCEPT !.at = "finally",
                             !.exit = IF ok THEN "return 0" ELSE after.exit]
    /\ UNCHANGED <<mainVars, guardVars, pageVars, callVars, urlOpens, winSession,
                   portable, cleaning, built, waiting>>

\* finally: shutil.rmtree(temp_dir), os.unlink(temp_dmg); then make_dmg
\* returns or the process exits.
DmgFinally ==
    /\ dmg.at = "finally"
    /\ dmg' = [dmg EXCEPT !.temp_dir = FALSE, !.temp_dmg = FALSE, !.at = "done"]
    /\ UNCHANGED <<mainVars, guardVars, pageVars, callVars, urlOpens, winSession,
                   portable, cleaning, built, waiting>>

NextDmg ==
    \/ \E background, copied \in BOOLEAN, window_size, position \in SizeArgs :
          DmgStart(background, window_size, position, copied)
    \/ \E ok \in BOOLEAN : DmgCreate(ok)
    \/ \E ok \in BOOLEAN : DmgAttach(ok)
    \/ DmgConfigure
    \/ \E ok \in BOOLEAN : DmgDetach(ok)
    \/ \E ok \in BOOLEAN : DmgConvert(ok)
    \/ DmgFinally

SpecDmg == InitServer /\ [][NextDmg]_vars

\* C35: once the temporary image has been attached it is detached before
\* make_dmg returns or the process exits, on every path, and the temporary
\* directory and image are not removed while the image is attached.
C35_DetachedOnEveryPath ==
    /\ dmg.at = "done" => ~dmg.attached
    /\ dmg.attached => (dmg.temp_dir /\ dmg.temp_dmg)

====
